---- MODULE Spec2Model ----
(***************************************************************************)
(* State-machine model of complete_analysis.py, the Uber fare analysis    *)
(* script: one run of the script from the first read of the raw CSV to    *)
(* the final summary.                                                      *)
(*                                                                         *)
(* A row of the data frame is a record.  The modelled raw columns are      *)
(* fare_amount, passenger_count and pickup_datetime; the coordinate        *)
(* columns (and the distance, day, month and year derived from them and    *)
(* from the timestamp) are not tracked: they are handled by the same       *)
(* dropna and never filtered on.  Fares are whole currency units.  A       *)
(* timestamp is the number of whole hours since a Monday 00:00.            *)
(* Quartiles are kept multiplied by 4 so that the linear interpolation     *)
(* stays in the integers.  A mean is the pair (sum, count), which is NaN   *)
(* exactly when count = 0.                                                 *)
(***************************************************************************)
EXTENDS Integers, Sequences, FiniteSets, TLC

VARIABLES pc, error, raw, df, dirs, made, files, cleaned_csv, enhanced_csv,
          stats, Q1, Q3, IQR, outliers,
          hourly_fare, hourly_rides, weekday_fare, weekday_rides,
          peak_comparison, passenger_stats, report

vars == <<pc, error, raw, df, dirs, made, files, cleaned_csv, enhanced_csv,
          stats, Q1, Q3, IQR, outliers,
          hourly_fare, hourly_rides, weekday_fare, weekday_rides,
          peak_comparison, passenger_stats, report>>

aggs == <<hourly_fare, hourly_rides, weekday_fare, weekday_rides,
          peak_comparison, passenger_stats>>

quart == <<stats, Q1, Q3, IQR, outliers>>

\* ------------------------------------------------------------------ bounds
\* Longest raw data set built from RawRecords.
MaxRows == 4
\* Longest raw data set built from BoundaryRecords.
MaxBoundaryRows == 2

\* ------------------------------------------------------------------ values
\* A missing cell (NaN / None): an integer outside every column's range.
NaN == -1000000

\* Every ordered comparison with NaN is False.
Gt(x, y) == x # NaN /\ y # NaN /\ x > y
Lt(x, y) == x # NaN /\ y # NaN /\ x < y
Le(x, y) == x # NaN /\ y # NaN /\ x <= y

Columns == {"fare_amount", "passenger_count", "pickup_datetime"}

Row(f, p, t) == [fare_amount |-> f, passenger_count |-> p, pickup_datetime |-> t]

RECURSIVE SumSeq(_)
SumSeq(s) == IF s = <<>> THEN 0 ELSE Head(s) + SumSeq(Tail(s))

Column(d, c) == [i \in 1..Len(d) |-> d[i][c]]

\* Series.mean(): sum / count, NaN (0/0) on an empty series.
Mean(s) == [sum |-> SumSeq(s), count |-> Len(s)]

SeqMin(s) == IF s = <<>> THEN NaN
             ELSE CHOOSE v \in {s[i] : i \in 1..Len(s)} : \A j \in 1..Len(s) : v <= s[j]

SeqMax(s) == IF s = <<>> THEN NaN
             ELSE CHOOSE v \in {s[i] : i \in 1..Len(s)} : \A j \in 1..Len(s) : v >= s[j]

\* ------------------------------------------------------------------ cleaner
\* df.dropna(): drop every row that has a missing cell.
DropNa(d) == SelectSeq(d, LAMBDA r : \A c \in Columns : r[c] # NaN)

PositiveFares(d) == SelectSeq(d, LAMBDA r : Gt(r.fare_amount, 0))

RemoveHighFaresMax(d) ==
    SelectSeq(d, LAMBDA r : Lt(r.fare_amount, SeqMax(Column(d, "fare_amount"))))

RemoveHighFaresLe(d) == SelectSeq(d, LAMBDA r : Le(r.fare_amount, 200))

RemoveHighFares(d) == SelectSeq(d, LAMBDA r : Lt(r.fare_amount, 200))

PositivePassengers(d) == SelectSeq(d, LAMBDA r : Gt(r.passenger_count, 0))

RealisticPassengers(d) == SelectSeq(d, LAMBDA r : Le(r.passenger_count, 6))

Cleaner(d) ==
    RealisticPassengers(PositivePassengers(RemoveHighFares(PositiveFares(DropNa(d)))))

\* ------------------------------------------------------------------ features
WEEKDAYS == <<"Monday", "Tuesday", "Wednesday", "Thursday", "Friday", "Saturday", "Sunday">>

Hour(ts) == ts % 24

DayOfWeek(ts) == (ts \div 24) % 7

DayName(ts) == WEEKDAYS[DayOfWeek(ts) + 1]

is_peak_mut(x) == IF (7 <= x /\ x < 9) \/ (17 <= x /\ x < 19) THEN "Peak" ELSE "Off-Peak"

is_peak(x) == IF (7 <= x /\ x <= 9) \/ (17 <= x /\ x <= 19) THEN "Peak" ELSE "Off-Peak"

time_category_mut(hour) ==
    IF 5 <= hour /\ hour < 12 THEN "Morning"
    ELSE IF 12 <= hour /\ hour <= 17 THEN "Afternoon"
    ELSE IF 17 <= hour /\ hour < 21 THEN "Evening"
    ELSE "Night"

time_category(hour) ==
    IF 5 <= hour /\ hour < 12 THEN "Morning"
    ELSE IF 12 <= hour /\ hour < 17 THEN "Afternoon"
    ELSE IF 17 <= hour /\ hour < 21 THEN "Evening"
    ELSE "Night"

Enrich(r) ==
    [fare_amount     |-> r.fare_amount,
     passenger_count |-> r.passenger_count,
     pickup_datetime |-> r.pickup_datetime,
     hour            |-> Hour(r.pickup_datetime),
     weekday         |-> DayName(r.pickup_datetime),
     weekday_num     |-> DayOfWeek(r.pickup_datetime),
     is_peak         |-> is_peak(Hour(r.pickup_datetime)),
     time_category   |-> time_category(Hour(r.pickup_datetime))]

\* ------------------------------------------------------------------ aggregator
GroupKeys(d, key) == {d[i][key] : i \in 1..Len(d)}

Group(d, key, k) == SelectSeq(d, LAMBDA r : r[key] = k)

\* df.groupby(key).size()
GroupSize(d, key) == [k \in GroupKeys(d, key) |-> Len(Group(d, key, k))]

\* df.groupby(key)['fare_amount'].mean()
GroupMean(d, key) ==
    [k \in GroupKeys(d, key) |-> Mean(Column(Group(d, key, k), "fare_amount"))]

\* df.groupby(key)['fare_amount'].agg(['mean', 'count'])
GroupAgg(d, key) ==
    [k \in GroupKeys(d, key) |->
        [mean  |-> Mean(Column(Group(d, key, k), "fare_amount")),
         count |-> Len(Group(d, key, k))]]

NaNMean == [sum |-> 0, count |-> 0]

WeekdayOrderNoSunday == <<"Monday", "Tuesday", "Wednesday", "Thursday", "Friday", "Saturday">>

WeekdayOrder == <<"Monday", "Tuesday", "Wednesday", "Thursday", "Friday", "Saturday", "Sunday">>

\* Series.reindex(order): one entry per label of order, in that order; a label
\* the series does not have gets the missing value.
Reindex(series, order, missing) ==
    [i \in 1..Len(order) |->
        [label |-> order[i],
         value |-> IF order[i] \in DOMAIN series THEN series[order[i]] ELSE missing]]

\* Series.idxmax() / Series.max() on a reindexed count series: NaN entries are
\* skipped, the first maximal label wins.
IdxMaxCount(s) ==
    LET valid == {i \in 1..Len(s) : s[i].value # NaN}
    IN  IF valid = {} THEN 0
        ELSE CHOOSE i \in valid :
                \A j \in valid : s[j].value < s[i].value \/ (s[j].value = s[i].value /\ i <= j)

MeanLess(a, b) == a.sum * b.count < b.sum * a.count

MeanEq(a, b) == a.sum * b.count = b.sum * a.count

IdxMaxMean(s) ==
    LET valid == {i \in 1..Len(s) : s[i].value.count # 0}
    IN  IF valid = {} THEN 0
        ELSE CHOOSE i \in valid :
                \A j \in valid : MeanLess(s[j].value, s[i].value)
                                 \/ (MeanEq(s[j].value, s[i].value) /\ i <= j)

\* Series.mode()[0]: the most frequent value, the lowest one on a tie.
Mode(s) ==
    LET vals == {s[i] : i \in 1..Len(s)}
        n(v) == Cardinality({i \in 1..Len(s) : s[i] = v})
        top  == {v \in vals : \A w \in vals : n(w) <= n(v)}
    IN  IF vals = {} THEN NaN ELSE CHOOSE v \in top : \A w \in top : v <= w

\* ------------------------------------------------------------------ statistics
quantile_lower(s, q4) ==
    LET n      == Len(s)
        sorted == SortSeq(s, LAMBDA a, b : a < b)
        lo     == (q4 * (n - 1)) \div 4
    IN  IF n = 0 THEN NaN ELSE 4 * sorted[lo + 1]

\* Series.quantile(q4 / 4), linear interpolation, times 4.
quantile(s, q4) ==
    LET n      == Len(s)
        sorted == SortSeq(s, LAMBDA a, b : a < b)
        pos    == q4 * (n - 1)
        lo     == pos \div 4
        frac   == pos % 4
    IN  IF n = 0 THEN NaN
        ELSE IF frac = 0 THEN 4 * sorted[lo + 1]
        ELSE 4 * sorted[lo + 1] + frac * (sorted[lo + 2] - sorted[lo + 1])

\* Q3 - Q1; NaN when either is.
Diff(a, b) == IF a = NaN \/ b = NaN THEN NaN ELSE a - b

\* fare < Q1 - 1.5 * IQR  or  fare > Q3 + 1.5 * IQR, with q1, q3, iqr times 4.
IsOutlier(fare, q1, q3, iqr) ==
    /\ q1 # NaN /\ q3 # NaN /\ iqr # NaN
    /\ (8 * fare < 2 * q1 - 3 * iqr \/ 8 * fare > 2 * q3 + 3 * iqr)

\* ------------------------------------------------------------------ files
File(dir, name, ext) == [dir |-> dir, name |-> name, ext |-> ext]

CleanedPath  == File("Data/cleaned", "uber_cleaned", "csv")
EnhancedPath == File("Data/enhanced", "uber_enhanced", "csv")
ReportPath   == File("Documents", "analysis_report", "txt")

FareDistributionPath  == File("powerbi", "fare_distribution", "png")
BoxPlotPath           == File("powerbi", "boxPlot", "png")
FareHourPath          == File("powerbi", "fare_hour", "png")
RidesHourPath         == File("powerbi", "rides_hour", "png")
FareWeekPath          == File("powerbi", "fare_week", "png")
RidesWeekdayPathSame  == File("powerbi", "fare_week", "png")
RidesWeekdayPath      == File("powerbi", "rides_weekday", "png")
FareMonthlyPath       == File("powerbi", "fare_monthly", "png")
PeakAnalysisPath      == File("powerbi", "peak_analysis", "png")
PassengerAnalysisPath == File("powerbi", "passenger_analysis", "png")
SummaryAnalysisPath   == File("powerbi", "summary_analysis", "png")

OutputDirs == {"Data/cleaned", "Data/enhanced", "powerbi", "Documents"}

\* ------------------------------------------------------------------ inputs
\* Timestamp of the given weekday ordinal (0 = Monday) and hour.
Stamp(dayofweek, hour) == dayofweek * 24 + hour

\* Rows the general data sets are built from: the three valid rows and the
\* negative fare of the worked example, a fare far above the others, and
\* rows sharing a weekday, an hour or a passenger count with another row.
RawRecords ==
    { Row(10, 1, Stamp(0, 8)),  Row(20, 2, Stamp(5, 13)), Row(30, 1, Stamp(6, 19)),
      Row(-5, 1, Stamp(0, 8)),  Row(199, 6, Stamp(2, 22)), Row(20, 1, Stamp(0, 17)),
      Row(10, 2, Stamp(5, 13)) }

\* Rows on and next to the edges of the cleaning filters, and with a missing cell.
BoundaryRecords ==
    { Row(f, p, Stamp(3, 9)) : f \in {NaN, 0, 1, 199, 200}, p \in {NaN, 0, 1, 6, 7} }
    \cup { Row(1, 1, NaN) }

\* One valid row for every hour of every weekday.
HourlyRecords == { Row(10, 1, Stamp(d, h)) : d \in 0..6, h \in 0..23 }

SeqsUpTo(S, n) == UNION { [1..k -> S] : k \in 0..n }

Unset == <<>>

\* ------------------------------------------------------------------ steps
Goto(next) == pc' = next /\ error' = error

Crash(e) == pc' = "crashed" /\ error' = e

\* A write of path: it fails when the parent directory does not exist.
Write(path, next) ==
    IF path.dir \in dirs
    THEN files' = files \cup {path} /\ Goto(next)
    ELSE files' = files /\ Crash("OSError")

Init ==
    /\ pc = "load"
    /\ error = "none"
    /\ \/ raw \in SeqsUpTo(RawRecords, MaxRows) /\ dirs = OutputDirs
       \/ raw \in SeqsUpTo(BoundaryRecords, MaxBoundaryRows) /\ dirs = OutputDirs
       \/ raw \in SeqsUpTo(HourlyRecords, 1) /\ dirs = OutputDirs
       \/ raw \in SeqsUpTo({Row(10, 1, Stamp(0, 8)), Row(-5, 1, Stamp(0, 8))}, 1)
          /\ dirs \in SUBSET OutputDirs
    /\ df = Unset
    /\ made = {}
    /\ files = {}
    /\ cleaned_csv = Unset
    /\ enhanced_csv = Unset
    /\ stats = Unset /\ Q1 = Unset /\ Q3 = Unset /\ IQR = Unset /\ outliers = Unset
    /\ hourly_fare = Unset /\ hourly_rides = Unset
    /\ weekday_fare = Unset /\ weekday_rides = Unset
    /\ peak_comparison = Unset /\ passenger_stats = Unset
    /\ report = Unset

\* Step 1: pd.read_csv
Load ==
    /\ pc = "load"
    /\ df' = raw
    /\ Goto("clean")
    /\ UNCHANGED <<raw, dirs, made, files, cleaned_csv, enhanced_csv, quart, aggs, report>>

\* Step 3: dropna, to_datetime and the four filters
Clean ==
    /\ pc = "clean"
    /\ df' = Cleaner(df)
    /\ Goto("save_cleaned")
    /\ UNCHANGED <<raw, dirs, made, files, cleaned_csv, enhanced_csv, quart, aggs, report>>

SaveCleaned ==
    /\ pc = "save_cleaned"
    /\ Write(CleanedPath, "features")
    /\ cleaned_csv' = IF CleanedPath.dir \in dirs THEN df ELSE cleaned_csv
    /\ UNCHANGED <<raw, df, dirs, made, enhanced_csv, quart, aggs, report>>

\* Step 4: the derived columns
Features ==
    /\ pc = "features"
    /\ df' = [i \in 1..Len(df) |-> Enrich(df[i])]
    /\ Goto("save_enhanced")
    /\ UNCHANGED <<raw, dirs, made, files, cleaned_csv, enhanced_csv, quart, aggs, report>>

SaveEnhanced ==
    /\ pc = "save_enhanced"
    /\ Write(EnhancedPath, "stats")
    /\ enhanced_csv' = IF EnhancedPath.dir \in dirs THEN df ELSE enhanced_csv
    /\ UNCHANGED <<raw, df, dirs, made, cleaned_csv, quart, aggs, report>>

\* Step 5: the printed statistics, the quartiles, the outliers and the
\* printed outlier percentage len(outliers)/len(df).
Stats ==
    /\ pc = "stats"
    /\ LET fares == Column(df, "fare_amount")
           q1    == quantile(fares, 1)
           q3    == quantile(fares, 3)
           iqr   == Diff(q3, q1)
       IN  /\ stats' = [mean |-> Mean(fares), min |-> SeqMin(fares), max |-> SeqMax(fares)]
           /\ Q1' = q1
           /\ Q3' = q3
           /\ IQR' = iqr
           /\ outliers' = SelectSeq(df, LAMBDA r : IsOutlier(r.fare_amount, q1, q3, iqr))
    /\ IF Len(df) = 0 THEN Crash("ZeroDivisionError") ELSE Goto("makedirs")
    /\ UNCHANGED <<raw, df, dirs, made, files, cleaned_csv, enhanced_csv, aggs, report>>

\* os.makedirs("powerbi", exist_ok=True)
MakeDirs ==
    /\ pc = "makedirs"
    /\ dirs' = dirs \cup {"powerbi"}
    /\ made' = made \cup {"powerbi"}
    /\ Goto("fare_distribution")
    /\ UNCHANGED <<raw, df, files, cleaned_csv, enhanced_csv, quart, aggs, report>>

\* ------------------------------------------------------------------ charts
\* 1. Fare distribution
FareDistribution ==
    /\ pc = "fare_distribution"
    /\ Write(FareDistributionPath, "boxplot")
    /\ UNCHANGED <<raw, df, dirs, made, cleaned_csv, enhanced_csv, quart, aggs, report>>

\* 2. Box plot of the fare by time category
BoxPlot ==
    /\ pc = "boxplot"
    /\ Write(BoxPlotPath, "fare_hour")
    /\ UNCHANGED <<raw, df, dirs, made, cleaned_csv, enhanced_csv, quart, aggs, report>>

\* 3. Average fare by hour
HourlyFare ==
    /\ pc = "fare_hour"
    /\ hourly_fare' = GroupMean(df, "hour")
    /\ Write(FareHourPath, "rides_hour")
    /\ UNCHANGED <<raw, df, dirs, made, cleaned_csv, enhanced_csv, quart, report,
                   hourly_rides, weekday_fare, weekday_rides, peak_comparison,
                   passenger_stats>>

\* 4. Number of rides by hour
HourlyRides ==
    /\ pc = "rides_hour"
    /\ hourly_rides' = GroupSize(df, "hour")
    /\ Write(RidesHourPath, "fare_week")
    /\ UNCHANGED <<raw, df, dirs, made, cleaned_csv, enhanced_csv, quart, report,
                   hourly_fare, weekday_fare, weekday_rides, peak_comparison,
                   passenger_stats>>

\* 5. Average fare by weekday
WeekdayFare ==
    /\ pc = "fare_week"
    /\ weekday_fare' = Reindex(GroupMean(df, "weekday"), WeekdayOrder, NaNMean)
    /\ Write(FareWeekPath, "rides_weekday")
    /\ UNCHANGED <<raw, df, dirs, made, cleaned_csv, enhanced_csv, quart, report,
                   hourly_fare, hourly_rides, weekday_rides, peak_comparison,
                   passenger_stats>>

\* 6. Number of rides by weekday
WeekdayRides ==
    /\ pc = "rides_weekday"
    /\ weekday_rides' = Reindex(GroupSize(df, "weekday"), WeekdayOrder, NaN)
    /\ Write(RidesWeekdayPath, "fare_monthly")
    /\ UNCHANGED <<raw, df, dirs, made, cleaned_csv, enhanced_csv, quart, report,
                   hourly_fare, hourly_rides, weekday_fare, peak_comparison,
                   passenger_stats>>

\* 7. Monthly fare trend (the month column is not tracked)
MonthlyFare ==
    /\ pc = "fare_monthly"
    /\ Write(FareMonthlyPath, "peak_analysis")
    /\ UNCHANGED <<raw, df, dirs, made, cleaned_csv, enhanced_csv, quart, aggs, report>>

\* 8. Peak against off-peak
PeakComparison ==
    /\ pc = "peak_analysis"
    /\ peak_comparison' = GroupAgg(df, "is_peak")
    /\ Write(PeakAnalysisPath, "passenger_analysis")
    /\ UNCHANGED <<raw, df, dirs, made, cleaned_csv, enhanced_csv, quart, report,
                   hourly_fare, hourly_rides, weekday_fare, weekday_rides,
                   passenger_stats>>

\* 9. Passenger count analysis
PassengerStats ==
    /\ pc = "passenger_analysis"
    /\ passenger_stats' = GroupAgg(df, "passenger_count")
    /\ Write(PassengerAnalysisPath, "summary_analysis")
    /\ UNCHANGED <<raw, df, dirs, made, cleaned_csv, enhanced_csv, quart, report,
                   hourly_fare, hourly_rides, weekday_fare, weekday_rides,
                   peak_comparison>>

\* 10. Summary dashboard
SummaryAnalysis ==
    /\ pc = "summary_analysis"
    /\ Write(SummaryAnalysisPath, "report")
    /\ UNCHANGED <<raw, df, dirs, made, cleaned_csv, enhanced_csv, quart, aggs, report>>

\* ------------------------------------------------------------------ report
Label(s, i) == IF i = 0 THEN "nan" ELSE s[i].label

\* Step 7: the report text is formatted, then written.
Report ==
    /\ pc = "report"
    /\ IF Len(df) = 0
       THEN report' = report /\ files' = files /\ Crash("ZeroDivisionError")
       ELSE /\ report' =
                [total_records    |-> Len(df),
                 average_fare     |-> Mean(Column(df, "fare_amount")),
                 min_fare         |-> SeqMin(Column(df, "fare_amount")),
                 max_fare         |-> SeqMax(Column(df, "fare_amount")),
                 busiest_day      |-> Label(weekday_rides, IdxMaxCount(weekday_rides)),
                 highest_fare_day |-> Label(weekday_fare, IdxMaxMean(weekday_fare)),
                 most_common      |-> Mode(Column(df, "passenger_count")),
                 max_passengers   |-> SeqMax(Column(df, "passenger_count")),
                 outliers         |-> Len(outliers),
                 outlier_pct      |-> [sum |-> 100 * Len(outliers), count |-> Len(df)]]
            /\ Write(ReportPath, "summary")
    /\ UNCHANGED <<raw, df, dirs, made, cleaned_csv, enhanced_csv, quart, aggs>>

\* The printed "Visualizations created" figure of the final summary.
VisualizationsCreated == 10

\* The closing messages and the final summary.
Summary ==
    /\ pc = "summary"
    /\ Goto("done")
    /\ UNCHANGED <<raw, df, dirs, made, files, cleaned_csv, enhanced_csv, quart, aggs, report>>

Next ==
    \/ Load \/ Clean \/ SaveCleaned \/ Features \/ SaveEnhanced \/ Stats \/ MakeDirs
    \/ FareDistribution \/ BoxPlot \/ HourlyFare \/ HourlyRides \/ WeekdayFare
    \/ WeekdayRides \/ MonthlyFare \/ PeakComparison \/ PassengerStats
    \/ SummaryAnalysis \/ Report \/ Summary

Spec == Init /\ [][Next]_vars

\* ------------------------------------------------------------------ properties
\* Positions of a run that has passed the cleaning step without stopping.
AfterClean ==
    {"save_cleaned", "features", "save_enhanced", "stats", "makedirs",
     "fare_distribution", "boxplot", "fare_hour", "rides_hour", "fare_week",
     "rides_weekday", "fare_monthly", "peak_analysis", "passenger_analysis",
     "summary_analysis", "report", "summary", "done"}

\* Positions of a run that has derived the feature columns.
AfterFeatures == AfterClean \ {"save_cleaned", "features"}

\* Positions of a run that has passed the descriptive statistics.
AfterStats == AfterFeatures \ {"save_enhanced", "stats"}

\* Positions of a run that has computed the weekday ride counts.
AfterWeekdayRides ==
    {"fare_monthly", "peak_analysis", "passenger_analysis", "summary_analysis",
     "report", "summary", "done"}

\* Positions of a run that has computed every grouping.
AfterGroupings == {"report", "summary", "done"}

ValidRow(r) ==
    /\ \A c \in Columns : r[c] # NaN
    /\ 0 < r.fare_amount /\ r.fare_amount < 200
    /\ 0 < r.passenger_count /\ r.passenger_count <= 6

AllValid(d) == \A i \in 1..Len(d) : ValidRow(d[i])

\* C1: every record that survives the Cleaner has no missing field,
\* 0 < fare_amount < 200 and 0 < passenger_count <= 6, in the data frame of
\* every later stage and in the rows written to the cleaned and enhanced files.
C1_CleanedRecordsValid ==
    pc \in AfterClean =>
        /\ AllValid(df)
        /\ CleanedPath \in files => AllValid(cleaned_csv)
        /\ EnhancedPath \in files => AllValid(enhanced_csv)

\* C1 witness: a finished run in which cleaning dropped a row and kept a row.
C1_Witness ==
    /\ pc = "done"
    /\ Len(df) >= 1 /\ Len(df) < Len(raw)
    /\ CleanedPath \in files /\ Len(cleaned_csv) = Len(df)

\* C2 (as claimed): an empty cleaned set is handled as a defined case: the run
\* does not stop on a division by zero and prints no NaN mean fare.
C2_EmptyResultHandled ==
    /\ error # "ZeroDivisionError"
    /\ pc \in AfterStats => stats.mean.count # 0

\* C3 (as claimed): the weekday ride counts list the seven weekdays in
\* Monday..Sunday order, and a weekday without rides has the count 0.
C3_AbsentWeekdayCountZero ==
    pc \in AfterWeekdayRides =>
        /\ Len(weekday_rides) = 7
        /\ \A i \in 1..7 :
              /\ weekday_rides[i].label = WEEKDAYS[i]
              /\ weekday_rides[i].value = Len(Group(df, "weekday", WEEKDAYS[i]))

\* C4 (as claimed): every output directory is created before the first write
\* into it, so no write of the run (cleaned CSV, enhanced CSV, chart image,
\* text report) fails on a missing directory, whichever directories exist
\* when the run starts.
C4_DirsCreatedBeforeWrite == error # "OSError"

Written(ext) == {f \in files : f.ext = ext}

\* C5 (as claimed): a completed run has written exactly two delimited files,
\* exactly eleven image files under the chart directory and one text report.
C5_ElevenImages ==
    pc = "done" =>
        /\ Cardinality(Written("csv")) = 2
        /\ Cardinality(Written("png")) = 11
        /\ Cardinality(Written("txt")) = 1

\* C5 (amended): a completed run has written exactly two delimited files
\* (cleaned, enhanced), exactly ten distinct image files, all under the chart
\* directory, and exactly one text report.
C5_TenImages ==
    pc = "done" =>
        /\ Written("csv") = {CleanedPath, EnhancedPath}
        /\ Cardinality(Written("png")) = VisualizationsCreated
        /\ \A f \in Written("png") : f.dir = "powerbi"
        /\ Written("txt") = {ReportPath}
        /\ files = Written("csv") \cup Written("png") \cup Written("txt")

\* C5 witness: a completed run with a non-empty cleaned set.
C5_Witness == pc = "done" /\ error = "none" /\ Len(df) > 0 /\ files # {}

PeakHours == {7, 8, 9, 17, 18, 19}

\* C6: for every hour 0..23 the peak flag is "Peak" iff the hour is one of
\* 7, 8, 9, 17, 18, 19 and "Off-Peak" otherwise, as a function of the hour and
\* in the is_peak column of every enriched row.
C6_PeakFlag ==
    /\ \A h \in 0..23 : is_peak(h) = IF h \in PeakHours THEN "Peak" ELSE "Off-Peak"
    /\ pc \in AfterFeatures =>
          \A i \in 1..Len(df) :
              /\ df[i].hour = df[i].pickup_datetime % 24
              /\ df[i].is_peak \in {"Peak", "Off-Peak"}
              /\ df[i].is_peak = "Peak" <=> df[i].hour \in PeakHours

\* C6 witness: an enriched row of hour 19 flagged Peak.
C6_Witness ==
    /\ pc = "stats"
    /\ \E i \in 1..Len(df) : df[i].hour = 19 /\ df[i].is_peak = "Peak"

Bucket(h) ==
    IF 5 <= h /\ h < 12 THEN "Morning"
    ELSE IF 12 <= h /\ h < 17 THEN "Afternoon"
    ELSE IF 17 <= h /\ h < 21 THEN "Evening"
    ELSE "Night"

\* C7: for every hour 0..23 the time category is exactly one of Morning
\* (5 <= h < 12), Afternoon (12 <= h < 17), Evening (17 <= h < 21) and Night
\* (h >= 21 or h < 5), as a function of the hour and in every enriched row.
C7_TimeCategory ==
    /\ \A h \in 0..23 :
          /\ time_category(h) \in {"Morning", "Afternoon", "Evening", "Night"}
          /\ time_category(h) = "Morning" <=> (5 <= h /\ h < 12)
          /\ time_category(h) = "Afternoon" <=> (12 <= h /\ h < 17)
          /\ time_category(h) = "Evening" <=> (17 <= h /\ h < 21)
          /\ time_category(h) = "Night" <=> (h >= 21 \/ h < 5)
    /\ pc \in AfterFeatures =>
          \A i \in 1..Len(df) : df[i].time_category = Bucket(df[i].hour)

\* C7 witness: an enriched row of hour 17, the first Evening hour.
C7_Witness ==
    /\ pc = "stats"
    /\ \E i \in 1..Len(df) : df[i].hour = 17 /\ df[i].time_category = "Evening"

\* C8: the Cleaner applied to its own output returns the identical rows.
C8_CleanerIdempotent ==
    /\ pc = "save_cleaned" => Cleaner(df) = df
    /\ CleanedPath \in files => Cleaner(cleaned_csv) = cleaned_csv

\* C8 witness: the Cleaner has just dropped a row and kept two or more.
C8_Witness == pc = "save_cleaned" /\ Len(df) >= 2 /\ Len(df) < Len(raw)

RECURSIVE SumOver(_, _)
SumOver(f, S) ==
    IF S = {} THEN 0
    ELSE LET k == CHOOSE x \in S : TRUE IN f[k] + SumOver(f, S \ {k})

\* Series.sum(): missing entries are skipped.
SumSkipNa(s) == SumSeq(SelectSeq([i \in 1..Len(s) |-> s[i].value], LAMBDA v : v # NaN))

\* C9: for the groupings by hour, by weekday (reindexed to Monday..Sunday,
\* missing entries skipped), by peak flag and by passenger count, the group
\* counts add up to the number of cleaned records.
C9_GroupCountsSumToTotal ==
    pc \in AfterGroupings =>
        /\ SumOver(hourly_rides, DOMAIN hourly_rides) = Len(df)
        /\ SumSkipNa(weekday_rides) = Len(df)
        /\ SumOver([k \in DOMAIN peak_comparison |-> peak_comparison[k].count],
                   DOMAIN peak_comparison) = Len(df)
        /\ SumOver([k \in DOMAIN passenger_stats |-> passenger_stats[k].count],
                   DOMAIN passenger_stats) = Len(df)

\* C9 witness: a finished run over three or more records, in two or more
\* hours, weekdays, peak flags and passenger counts, with a Sunday ride.
C9_Witness ==
    /\ pc = "done"
    /\ Len(df) >= 3
    /\ Cardinality(DOMAIN hourly_rides) >= 2
    /\ Cardinality(DOMAIN peak_comparison) = 2
    /\ Cardinality(DOMAIN passenger_stats) >= 2
    /\ weekday_rides[7].value # NaN
    /\ weekday_rides[2].value = NaN

\* The k-th smallest value of s, by counting.
OrderStat(s, k) ==
    CHOOSE v \in {s[i] : i \in 1..Len(s)} :
        /\ Cardinality({i \in 1..Len(s) : s[i] < v}) < k
        /\ k <= Cardinality({i \in 1..Len(s) : s[i] <= v})

\* Four times the (q4/4)-quantile of s with linear interpolation between the
\* two order statistics around position q4 * (n - 1) / 4.
Percentile4(s, q4) ==
    LET h  == q4 * (Len(s) - 1)
        lo == (h \div 4) + 1
        hi == IF h % 4 = 0 THEN lo ELSE lo + 1
        fr == h % 4
    IN  (4 - fr) * OrderStat(s, lo) + fr * OrderStat(s, hi)

\* The worked example: fares 10, 20, 30 with passenger counts 1, 2, 1 and one
\* row of fare -5.
Example(d) ==
    /\ Len(d) = 4
    /\ Cardinality({i \in 1..4 : d[i].fare_amount = 10 /\ d[i].passenger_count = 1}) = 1
    /\ Cardinality({i \in 1..4 : d[i].fare_amount = 20 /\ d[i].passenger_count = 2}) = 1
    /\ Cardinality({i \in 1..4 : d[i].fare_amount = 30 /\ d[i].passenger_count = 1}) = 1
    /\ Cardinality({i \in 1..4 : d[i].fare_amount = -5}) = 1

\* C10: the outliers are the records whose fare is below Q1 - 1.5 IQR or
\* above Q3 + 1.5 IQR, Q1 and Q3 being the 25th and 75th percentiles with
\* linear interpolation and IQR = Q3 - Q1; on the worked example the cleaned
\* count is 3, the mean fare 20 and the outlier count 0.
C10_OutlierCount ==
    pc \in AfterStats =>
        LET fares == Column(df, "fare_amount")
        IN  /\ Q1 = Percentile4(fares, 1)
            /\ Q3 = Percentile4(fares, 3)
            /\ IQR = Q3 - Q1
            /\ Len(outliers) =
                 Cardinality({i \in 1..Len(df) :
                     \/ 8 * fares[i] < 2 * Q1 - 3 * IQR
                     \/ 8 * fares[i] > 2 * Q3 + 3 * IQR})
            /\ Example(raw) =>
                 /\ Len(df) = 3
                 /\ stats.mean.sum = 20 * stats.mean.count
                 /\ Len(outliers) = 0

\* C10 witness: the run on the worked example has computed its statistics.
C10_Witness == pc = "makedirs" /\ Example(raw) /\ Len(outliers) = 0 /\ Len(df) = 3

====
